------------------------------ MODULE Spec2Model ------------------------------
(***************************************************************************)
(* A model of main.cpp: a single-threaded HTTP server that accepts one     *)
(* connection at a time, answers GET / with a static page and POST / with  *)
(* a frame of a one-entity simulation, and paces its responses.            *)
(*                                                                         *)
(* Bytes are one-character strings, byte strings are sequences of them.    *)
(* Time is the reading of std::chrono::steady_clock in milliseconds.       *)
(* The pixel buffer keeps the layout of the source (row-major RGBA bytes); *)
(* its two dimensions are model bounds (WIDTH = 2 * HalfWidth, HEIGHT =    *)
(* 2 * HalfHeight; 256 x 256 in the source), everything else that is a     *)
(* number in the source keeps its value.                                   *)
(***************************************************************************)
EXTENDS Integers, Sequences, FiniteSets

VARIABLES
  pc,                 \* where the thread is: "accept", "recv", "dispatch", "send",
                      \* "exited" (main returned), "aborted" (std::terminate),
                      \* "killed" (SIGPIPE); "draw", "drawn" for drawRect on its own
  now,                \* std::chrono::steady_clock::now(), in ms
  conn,               \* the accepted descriptor: "none", "open" or "closed"
  nextSendTimePoint,  \* runReceiveSendLoop's local
  readSize,           \* the value the last recv returned
  request,            \* runReceiveSendLoop's local: the bytes of the last read
  response,           \* runReceiveSendLoop's local: the bytes handed to send
  hero,               \* the global Hero: [x_, y_]
  canvas,             \* the global Canvas: its data vector, index 0 first
  sendResult,         \* what the session's last send call returned
  lastSendAt,         \* history: the clock at the session's last send call
  sessionStart,       \* history: the clock at line 188 of the session
  reads,              \* history: reads of the session that returned N > 0
  sends,              \* history: send calls of the session
  served,             \* history: reads that returned N > 0 since the process started
  sessions,           \* history: connections accepted since the process started
  rect,               \* drawRect on its own: the arguments of the call
  calls,              \* drawRect on its own: the setPixel calls it made
  closes              \* history: calls of close since the process started

vars == <<pc, now, conn, nextSendTimePoint, readSize, request, response, hero,
          canvas, sendResult, lastSendAt, sessionStart, reads, sends, served,
          sessions, rect, calls, closes>>

-----------------------------------------------------------------------------
(* Bounds of the model. *)

HalfWidth == 6
HalfHeight == 5
TimeStep == 50
MaxClock == 400
MaxReads == 2
MaxSessions == 2

-----------------------------------------------------------------------------
(* Program constants. *)

WIDTH == 2 * HalfWidth
HEIGHT == 2 * HalfHeight
DEPTH == 4
ArrowLeft == 37
ArrowUp == 38
ArrowRight == 39
ArrowDown == 40
RECV_BUF_SIZE == 4096
INTERVAL == 100
KEYS == 256

\* std::string_view::npos is SIZE_MAX.  size_t arithmetic is modulo 2^64, so
\* SIZE_MAX stands as -1: npos + 4 is 3, as in the build.
NPOS == 0 - 1

\* std::vector<char>::max_size() is below SIZE_MAX; resize(n) throws
\* std::length_error for a larger n.  (size_t)(-1) is SIZE_MAX.
ResizeThrows(n) == n = 0 - 1

-----------------------------------------------------------------------------
(* Byte strings. *)

CRLF == <<"\r", "\n">>
CRLFCRLF == <<"\r", "\n", "\r", "\n">>

GET_PREFIX ==
  <<
     "G", "E", "T", " ", "/", " "
  >>

POST_PREFIX ==
  <<
     "P", "O", "S", "T", " ", "/", " "
  >>

POST ==
  <<
     "P", "O", "S", "T"
  >>

STATUS_LINE ==
  <<
     "H", "T", "T", "P", "/", "1", ".", "1", " ", "2", "0", "0", " ", "O", "K", "\r",
     "\n"
  >>

CONTENT_TYPE ==
  <<
     "C", "o", "n", "t", "e", "n", "t", "-", "T", "y", "p", "e", ":", " ", "t", "e",
     "x", "t", "/", "h", "t", "m", "l", "\r", "\n"
  >>

CONTENT_LENGTH ==
  <<
     "C", "o", "n", "t", "e", "n", "t", "-", "L", "e", "n", "g", "t", "h", ":", " "
  >>

baseHTML ==
  <<
     "\n", "<", "!", "D", "O", "C", "T", "Y", "P", "E", " ", "h", "t", "m", "l", ">",
     "\n", "<", "c", "a", "n", "v", "a", "s", " ", "w", "i", "d", "t", "h", "=", "\"",
     "2", "5", "6", "\"", " ", "h", "e", "i", "g", "h", "t", "=", "\"", "2", "5", "6",
     "\"", ">", "<", "/", "c", "a", "n", "v", "a", "s", ">", "\n", "<", "s", "c", "r",
     "i", "p", "t", ">", "\n", " ", " ", "c", "o", "n", "s", "t", " ", "k", "e", "y",
     "s", " ", "=", " ", "A", "r", "r", "a", "y", "(", "2", "5", "6", ")", ".", "f",
     "i", "l", "l", "(", "0", ")", ";", "\n", " ", " ", "o", "n", "k", "e", "y", "d",
     "o", "w", "n", " ", "=", " ", "(", "e", ")", " ", "=", ">", " ", "k", "e", "y",
     "s", "[", "e", ".", "k", "e", "y", "C", "o", "d", "e", "]", " ", "=", " ", "1",
     ";", "\n", " ", " ", "o", "n", "k", "e", "y", "u", "p", " ", "=", " ", "(", "e",
     ")", " ", "=", ">", " ", "k", "e", "y", "s", "[", "e", ".", "k", "e", "y", "C",
     "o", "d", "e", "]", " ", "=", " ", "0", ";", "\n", " ", " ", "o", "n", "l", "o",
     "a", "d", " ", "=", " ", "a", "s", "y", "n", "c", " ", "(", ")", " ", "=", ">",
     " ", "{", "\n", " ", " ", " ", " ", "w", "h", "i", "l", "e", " ", "(", "t", "r",
     "u", "e", ")", " ", "{", "\n", " ", " ", " ", " ", " ", " ", "c", "o", "n", "s",
     "t", " ", "r", "e", "s", " ", "=", " ", "a", "w", "a", "i", "t", " ", "f", "e",
     "t", "c", "h", "(", "\"", "/", "\"", ",", " ", "{", " ", "m", "e", "t", "h", "o",
     "d", ":", " ", "\"", "P", "O", "S", "T", "\"", ",", " ", "b", "o", "d", "y", ":",
     " ", "k", "e", "y", "s", ".", "j", "o", "i", "n", "(", "\"", "\"", ")", " ", "}",
     ")", ";", "\n", " ", " ", " ", " ", " ", " ", "c", "o", "n", "s", "t", " ", "j",
     "s", "o", "n", " ", "=", " ", "a", "w", "a", "i", "t", " ", "r", "e", "s", ".",
     "j", "s", "o", "n", "(", ")", ";", "\n", " ", " ", " ", " ", " ", " ", "c", "o",
     "n", "s", "t", " ", "c", "a", "n", "v", "a", "s", " ", "=", " ", "d", "o", "c",
     "u", "m", "e", "n", "t", ".", "q", "u", "e", "r", "y", "S", "e", "l", "e", "c",
     "t", "o", "r", "(", "\"", "c", "a", "n", "v", "a", "s", "\"", ")", ";", "\n", " ",
     " ", " ", " ", " ", " ", "c", "o", "n", "s", "t", " ", "c", "t", "x", " ", "=",
     " ", "c", "a", "n", "v", "a", "s", ".", "g", "e", "t", "C", "o", "n", "t", "e",
     "x", "t", "(", "\"", "2", "d", "\"", ")", ";", "\n", " ", " ", " ", " ", " ", " ",
     "c", "o", "n", "s", "t", " ", "i", "m", "a", "g", "e", "D", "a", "t", "a", " ",
     "=", " ", "n", "e", "w", " ", "I", "m", "a", "g", "e", "D", "a", "t", "a", "(",
     "n", "e", "w", " ", "U", "i", "n", "t", "8", "C", "l", "a", "m", "p", "e", "d",
     "A", "r", "r", "a", "y", "(", "j", "s", "o", "n", ")", ",", " ", "2", "5", "6",
     ")", ";", "\n", " ", " ", " ", " ", " ", " ", "c", "t", "x", ".", "p", "u", "t",
     "I", "m", "a", "g", "e", "D", "a", "t", "a", "(", "i", "m", "a", "g", "e", "D",
     "a", "t", "a", ",", " ", "0", ",", " ", "0", ")", ";", "\n", " ", " ", " ", " ",
     "}", "\n", " ", " ", "}", ";", "\n", "<", "/", "s", "c", "r", "i", "p", "t", ">",
     "\n"
  >>

Min(a, b) == IF a < b THEN a ELSE b
Max(a, b) == IF a > b THEN a ELSE b

\* std::string_view::substr(pos, count): the bytes from index pos (0-based), at
\* most count of them (count = NPOS: to the end).  pos > size() throws
\* std::out_of_range; no call of the program reaches that.
Substr(s, pos, count) ==
  LET n == IF count = NPOS THEN Len(s) - pos ELSE Min(count, Len(s) - pos)
  IN  SubSeq(s, pos + 1, pos + n)

\* std::string_view::find(pat): the first index where pat occurs, or npos.
Find(s, pat) ==
  LET at == {i \in 0..(Len(s) - Len(pat)) : \A j \in 1..Len(pat) : s[i + j] = pat[j]}
  IN  IF at = {} THEN NPOS ELSE CHOOSE i \in at : \A k \in at : i <= k

\* std::to_string of a value >= 0.
Digit(n) == <<"0", "1", "2", "3", "4", "5", "6", "7", "8", "9">>[n + 1]
RECURSIVE to_string(_)
to_string(n) == IF n < 10 THEN <<Digit(n)>> ELSE to_string(n \div 10) \o <<Digit(n % 10)>>

-----------------------------------------------------------------------------
(* float: x_ and y_ hold binary32 values.  Every value the model computes is *)
(* an integer; F32 rounds it to the nearest binary32 (ties to even), which  *)
(* changes nothing up to 2^24.                                              *)

RECURSIVE UlpOf(_)
UlpOf(a) == IF a < 16777216 THEN 1 ELSE 2 * UlpOf(a \div 2)

F32(v) ==
  LET a == IF v < 0 THEN 0 - v ELSE v
      u == UlpOf(a)
      q == a \div u
      r == a - q * u
      m == IF 2 * r < u THEN q * u
           ELSE IF 2 * r > u THEN (q + 1) * u
           ELSE IF q % 2 = 0 THEN q * u ELSE (q + 1) * u
  IN  IF v < 0 THEN 0 - m ELSE m

\* The conversion float -> int of a call's arguments (the values are integral).
ToInt(f) == f

-----------------------------------------------------------------------------
(* Color and Canvas. *)

Color(r, g, b) == <<r, g, b, 255>>

\* Canvas(): data.resize(WIDTH * HEIGHT * DEPTH) value-initialises the bytes.
CanvasInit == [i \in 0..(WIDTH * HEIGHT * DEPTH - 1) |-> 0]

Clamp(v, lo, hi) == IF v < lo THEN lo ELSE IF hi < v THEN hi ELSE v

\* int is 32 bits wide.
INT_MAX == 2147483647
INT_MIN == 0 - INT_MAX - 1

\* a + b and a - b do not fit an int.
SumOverflows(a, b) == (a > 0 /\ b > INT_MAX - a) \/ (a < 0 /\ b < INT_MIN - a)
DiffOverflows(a, b) == (b > 0 /\ a < INT_MIN + b) \/ (b < 0 /\ a > INT_MAX + b)

\* Signed overflow is undefined. The build either wraps (the add and sub
\* instructions), or goes on as if the result were exact (a wider register,
\* or an optimiser that takes overflow for impossible); the exact result,
\* which no int holds, is stood for by the int nearest to it: drawRect only
\* compares it with bounds of the buffer. ov = "none" where nothing overflows.
OverflowOutcomes == {"wrap", "wide"}

IntSum(a, b, ov) ==
  IF ~SumOverflows(a, b) THEN a + b
  ELSE IF ov = "wrap"
       THEN IF a > 0 THEN (a + INT_MIN) + (b + INT_MIN) ELSE (a - INT_MIN) + (b - INT_MIN)
       ELSE IF a > 0 THEN INT_MAX ELSE INT_MIN

IntDiff(a, b, ov) ==
  IF ~DiffOverflows(a, b) THEN a - b
  ELSE IF ov = "wrap"
       THEN IF b > 0 THEN ((a - INT_MIN) + (INT_MAX - b)) + 1
                     ELSE ((a - INT_MAX) + (INT_MIN - b)) - 1
       ELSE IF b > 0 THEN INT_MIN ELSE INT_MAX

\* Canvas::drawRect, lines 72-75: the clamped rectangle.
ClampRect(x, y, w, h, ov) ==
  LET cx == Clamp(x, 0, WIDTH)
      cy == Clamp(y, 0, HEIGHT)
  IN  [cx |-> cx, cy |-> cy,
       cw |-> IntDiff(Min(IntSum(x, w, ov), WIDTH), cx, ov),
       ch |-> IntDiff(Min(IntSum(y, h, ov), HEIGHT), cy, ov)]

\* for (int i = lo; i < hi; ++i): the values i takes.
Loop(lo, hi) == IF hi <= lo THEN {} ELSE lo..(hi - 1)

\* Canvas::drawRect, lines 76-80: the setPixel(xi, yi, c) calls of the two loops.
SetPixelCalls(x, y, w, h, ov) ==
  LET r == ClampRect(x, y, w, h, ov)
  IN  {<<xi, yi>> : xi \in Loop(r.cx, IntSum(r.cx, r.cw, ov)),
                    yi \in Loop(r.cy, IntSum(r.cy, r.ch, ov))}

\* Canvas::setPixel(x, y, c) stores the four bytes of c.data from this index on.
PixelOffset(x, y) == (x + y * WIDTH) * DEPTH

\* Canvas::drawRect: data after the calls (all of one colour, so their order
\* does not matter).  Byte i is written by a call setPixel(xi, yi, c) of the
\* loops with PixelOffset(xi, yi) <= i < PixelOffset(xi, yi) + DEPTH.
Canvas_drawRect(data, x, y, w, h, c, ov) ==
  LET r == ClampRect(x, y, w, h, ov)
      x0 == r.cx
      x1 == IntSum(r.cx, r.cw, ov)
      y0 == r.cy
      y1 == IntSum(r.cy, r.ch, ov)
      \* When every xi of the loops is a column of the buffer, the call that
      \* writes pixel p is setPixel(p % WIDTH, p \div WIDTH, c), if it is made.
      inRow == 0 <= x0 /\ x1 <= WIDTH
      hit(i) == LET p == i \div DEPTH
                IN  IF inRow
                    THEN /\ x0 <= p % WIDTH /\ p % WIDTH < x1
                         /\ y0 <= p \div WIDTH /\ p \div WIDTH < y1
                    ELSE \E yi \in Loop(y0, y1) : x0 <= p - yi * WIDTH /\ p - yi * WIDTH < x1
  IN  [i \in DOMAIN data |-> IF hit(i) THEN c[(i % DEPTH) + 1] ELSE data[i]]

\* Canvas::clear
Canvas_clear(data, ov) == Canvas_drawRect(data, 0, 0, WIDTH, HEIGHT, Color(0, 0, 0), ov)

\* Canvas::toString: "[" + the bytes in decimal, comma-separated + "]".
RECURSIVE JoinBytes(_, _, _)
JoinBytes(data, lo, hi) ==
  IF lo > hi THEN <<>>
  ELSE IF lo = hi
       THEN to_string(data[lo]) \o (IF lo # WIDTH * HEIGHT * DEPTH - 1 THEN <<",">> ELSE <<>>)
       ELSE LET mid == (lo + hi) \div 2
            IN  JoinBytes(data, lo, mid) \o JoinBytes(data, mid + 1, hi)

Canvas_toString(data) ==
  <<"[">> \o JoinBytes(data, 0, WIDTH * HEIGHT * DEPTH - 1) \o <<"]">>

-----------------------------------------------------------------------------
(* isKeyDown and Hero. *)

\* The key codes whose index lies outside requestBody: operator[] reads past
\* the view there, which is undefined; the byte found may or may not be '1'.
OutOfBody(requestBody) ==
  {k \in {ArrowLeft, ArrowUp, ArrowRight, ArrowDown} : k >= Len(requestBody)}

\* isKeyDown(requestBody, keyCode); mem[k] says whether the byte read past the
\* body for key code k is '1'.
isKeyDown(requestBody, keyCode, mem) ==
  IF keyCode < Len(requestBody) THEN requestBody[keyCode + 1] = "1" ELSE mem[keyCode]

HeroInit == [x_ |-> HalfWidth, y_ |-> HalfHeight]

\* A variant of Hero::update in which ArrowUp adds to y_.
Hero_update_UpAdds(h, requestBody, mem) ==
  LET spd == 8
      x1 == IF isKeyDown(requestBody, ArrowLeft, mem) THEN F32(h.x_ - spd) ELSE h.x_
      y1 == IF isKeyDown(requestBody, ArrowUp, mem) THEN F32(h.y_ + spd) ELSE h.y_
      x2 == IF isKeyDown(requestBody, ArrowRight, mem) THEN F32(x1 + spd) ELSE x1
      y2 == IF isKeyDown(requestBody, ArrowDown, mem) THEN F32(y1 + spd) ELSE y1
  IN  [x_ |-> x2, y_ |-> y2]

\* Hero::update
Hero_update(h, requestBody, mem) ==
  LET spd == 8
      x1 == IF isKeyDown(requestBody, ArrowLeft, mem) THEN F32(h.x_ - spd) ELSE h.x_
      y1 == IF isKeyDown(requestBody, ArrowUp, mem) THEN F32(h.y_ - spd) ELSE h.y_
      x2 == IF isKeyDown(requestBody, ArrowRight, mem) THEN F32(x1 + spd) ELSE x1
      y2 == IF isKeyDown(requestBody, ArrowDown, mem) THEN F32(y1 + spd) ELSE y1
  IN  [x_ |-> x2, y_ |-> y2]

\* Hero::draw
Hero_draw(data, h, ov) ==
  LET r == 4
  IN  Canvas_drawRect(data, ToInt(F32(h.x_ - r)), ToInt(F32(h.y_ - r)),
               ToInt(2 * r), ToInt(2 * r), Color(255, 0, 0), ov)

-----------------------------------------------------------------------------
(* The request codec. *)

\* getRequestLine
getRequestLine(req) == Substr(req, 0, Find(req, CRLF))

\* A variant of getRequestBody that skips two bytes of the separator only.
getRequestBody_SkipsTwo(req) ==
  IF Find(getRequestLine(req), POST) # 0 THEN <<>>
  ELSE Substr(req, Find(req, CRLFCRLF) + 2, NPOS)

\* getRequestBody: find(...) + 4 is 3 when there is no CRLF CRLF.
getRequestBody(req) ==
  IF Find(getRequestLine(req), POST) # 0 THEN <<>>
  ELSE Substr(req, Find(req, CRLFCRLF) + 4, NPOS)

\* A variant of the dispatch that looks for the prefix anywhere in the line.
Dispatch_PrefixAnywhere(req) ==
  LET requestLine == getRequestLine(req)
  IN  IF Find(requestLine, GET_PREFIX) # NPOS THEN "GET"
      ELSE IF Find(requestLine, POST_PREFIX) # NPOS THEN "POST"
      ELSE "NONE"

\* Which branch createResponseBody takes.
Dispatch(req) ==
  LET requestLine == getRequestLine(req)
  IN  IF Find(requestLine, GET_PREFIX) = 0 THEN "GET"
      ELSE IF Find(requestLine, POST_PREFIX) = 0 THEN "POST"
      ELSE "NONE"

\* createResponseHeader
createResponseHeader(responseBodySize) ==
  STATUS_LINE \o CONTENT_TYPE \o CONTENT_LENGTH \o to_string(responseBodySize) \o CRLF

\* A variant of createResponse without the "\r\n" between header and body.
createResponse_NoBlankLine(responseBody) ==
  createResponseHeader(Len(responseBody)) \o responseBody

\* createResponse, given the body createResponseBody returned.
createResponse(responseBody) ==
  createResponseHeader(Len(responseBody)) \o CRLF \o responseBody

-----------------------------------------------------------------------------
(* What a client may send: the bytes one recv returns. *)

GET_LINE ==
  <<
     "G", "E", "T", " ", "/", " ", "H", "T", "T", "P", "/", "1", ".", "1", "\r", "\n"
  >>

POST_LINE ==
  <<
     "P", "O", "S", "T", " ", "/", " ", "H", "T", "T", "P", "/", "1", ".", "1", "\r",
     "\n"
  >>

PUT_LINE ==
  <<
     "P", "U", "T", " ", "/", " ", "H", "T", "T", "P", "/", "1", ".", "1", "\r", "\n"
  >>

HOST_PORT ==
  <<
     "H", "o", "s", "t", ":", " ", "1", "9", "2", ".", "1", "6", "8", ".", "1", "0",
     "0", ".", "1", "0", "0", ":", "2", "1", "0", "0", "1", "\r", "\n"
  >>

HOST ==
  <<
     "H", "o", "s", "t", ":", " ", "x", "\r", "\n"
  >>

\* The body the page's script posts (line 30): keys.join(""), one digit per
\* key code, '1' for the codes in down.
KeyBody(down) == [i \in 1..KEYS |-> IF (i - 1) \in down THEN "1" ELSE "0"]

ReqGet == GET_LINE \o HOST \o CRLF
ReqPost(body) == POST_LINE \o HOST \o CRLF \o body
ReqPut == PUT_LINE \o HOST \o CRLF

\* A POST whose body was cut by the read after n bytes.
ReqPostCut(down, n) == ReqPost(SubSeq(KeyBody(down), 1, n))

\* A POST whose headers arrived without the blank line.
ReqPostNoBlankLine == POST_LINE \o HOST_PORT

\* Two requests in one read.
ReqCoalesced == ReqPost(KeyBody({ArrowRight})) \o ReqPost(KeyBody({ArrowUp}))

Requests ==
  { ReqGet, ReqPut, ReqPostNoBlankLine, ReqCoalesced,
    ReqPost(KeyBody({})), ReqPost(KeyBody({ArrowUp})), ReqPost(KeyBody({ArrowRight})),
    ReqPost(KeyBody({ArrowLeft, ArrowRight})), ReqPost(KeyBody({ArrowDown})),
    ReqPost(<<>>), ReqPostCut({ArrowLeft}, 39) }

\* One request of each kind, for the runs that explore the timing.
PacingRequests == { ReqGet, ReqPut, ReqPost(KeyBody({})) }

\* send(2) returns the number of bytes it sent, which may be short of the
\* length asked for, or -1; or it raises SIGPIPE.
SendResults == {"all", "short", "error", "sigpipe"}

-----------------------------------------------------------------------------
(* update, createResponseBody: the body returned, and the globals afterwards. *)

\* A variant that draws over the previous frame without clearing it.
update_NoClear(requestBody, h, data, mem, ov) ==
  LET h2 == Hero_update(h, requestBody, mem)
      d2 == Hero_draw(data, h2, ov)
  IN  [body |-> Canvas_toString(d2), hero |-> h2, canvas |-> d2]

update(requestBody, h, data, mem, ov) ==
  LET h2 == Hero_update(h, requestBody, mem)
      d2 == Hero_draw(Canvas_clear(data, ov), h2, ov)
  IN  [body |-> Canvas_toString(d2), hero |-> h2, canvas |-> d2]

\* A variant that also runs a tick, with no key found down, for GET /.
createResponseBody_GetTicks(req, h, data, mem, ov) ==
  IF Dispatch(req) = "GET"
  THEN LET none == [k \in OutOfBody(<<>>) |-> FALSE]
           u == update(<<>>, h, data, none, ov)
       IN  [body |-> baseHTML, hero |-> u.hero, canvas |-> u.canvas]
  ELSE IF Dispatch(req) = "POST" THEN update(getRequestBody(req), h, data, mem, ov)
  ELSE [body |-> <<>>, hero |-> h, canvas |-> data]

\* createResponseBody
createResponseBody(req, h, data, mem, ov) ==
  IF Dispatch(req) = "GET" THEN [body |-> baseHTML, hero |-> h, canvas |-> data]
  ELSE IF Dispatch(req) = "POST" THEN update(getRequestBody(req), h, data, mem, ov)
  ELSE [body |-> <<>>, hero |-> h, canvas |-> data]

\* The bytes isKeyDown may find past the body of req: one choice per key code.
Memory(req) ==
  IF Dispatch(req) = "POST" THEN [OutOfBody(getRequestBody(req)) -> BOOLEAN]
  ELSE {<<>>}

\* The outcomes of the int sums in the drawRect calls of update for req.
DrawOutcomes(req, h, mem) ==
  LET h2 == Hero_update(h, getRequestBody(req), mem)
  IN  IF /\ Dispatch(req) = "POST"
         /\ \/ SumOverflows(ToInt(F32(h2.x_ - 4)), 8)
            \/ SumOverflows(ToInt(F32(h2.y_ - 4)), 8)
      THEN OverflowOutcomes
      ELSE {"none"}

-----------------------------------------------------------------------------
(* The thread: main, runConnectionLoop, runReceiveSendLoop. *)

\* Where runReceiveSendLoop goes after recv returned rs: buf.resize(readSize)
\* comes first and throws for -1 (nothing catches: std::terminate); then -1
\* and 0 leave the loop, and runConnectionLoop closes and accepts again.
AfterRecv(rs) ==
  IF ResizeThrows(rs) THEN "aborted"
  ELSE IF rs = 0 - 1 THEN "accept"
  ELSE IF rs = 0 THEN "accept"
  ELSE "dispatch"

\* A variant without the sleep.
SleepUntilReturns_Always(t) == TRUE

\* std::this_thread::sleep_until(t) returns once the clock has reached t.
SleepUntilReturns(t) == now >= t

\* A variant that advances the deadline by half the interval.
AdvanceDeadline_Half(t) == t + INTERVAL \div 2

\* A variant that sets the deadline from the time of the send.
AdvanceDeadline_FromNow(t) == now + INTERVAL

\* nextSendTimePoint += 100ms
AdvanceDeadline(t) == t + INTERVAL

\* Where the thread goes after send: the result of send is not looked at, and
\* a send on a connection the peer has reset raises SIGPIPE, which nothing
\* handles, blocks or ignores (the send has no MSG_NOSIGNAL).
AfterSend(result) == IF result = "sigpipe" THEN "killed" ELSE "recv"

Init ==
  /\ pc = "accept"
  /\ now = 0
  /\ conn = "none"
  /\ nextSendTimePoint = 0
  /\ readSize = 0
  /\ request = <<>>
  /\ response = <<>>
  /\ hero = HeroInit
  /\ canvas = CanvasInit
  /\ sendResult = "none"
  /\ lastSendAt = 0
  /\ sessionStart = 0
  /\ reads = 0
  /\ sends = 0
  /\ served = 0
  /\ sessions = 0
  /\ rect = <<0, 0, 0, 0>>
  /\ calls = {}
  /\ closes = 0

\* A variant in which a new session starts with a new world.
Accept_ResetsWorld ==
  /\ pc = "accept"
  /\ sessions < MaxSessions
  /\ pc' = "recv"
  /\ conn' = "open"
  /\ nextSendTimePoint' = now
  /\ sessionStart' = now
  /\ sessions' = sessions + 1
  /\ reads' = 0
  /\ sends' = 0
  /\ sendResult' = "none"
  /\ lastSendAt' = 0
  /\ hero' = HeroInit
  /\ canvas' = CanvasInit
  /\ UNCHANGED <<now, readSize, request, response, served, rect, calls, closes>>

\* A variant in which the deadline is kept from one session to the next.
Accept_KeepsDeadline ==
  /\ pc = "accept"
  /\ sessions < MaxSessions
  /\ pc' = "recv"
  /\ conn' = "open"
  /\ sessionStart' = now
  /\ sessions' = sessions + 1
  /\ reads' = 0
  /\ sends' = 0
  /\ sendResult' = "none"
  /\ lastSendAt' = 0
  /\ UNCHANGED <<now, nextSendTimePoint, readSize, request, response, hero, canvas, served,
                 rect, calls, closes>>

\* accept returns a descriptor; runReceiveSendLoop starts (line 188).
Accept ==
  /\ pc = "accept"
  /\ sessions < MaxSessions
  /\ pc' = "recv"
  /\ conn' = "open"
  /\ nextSendTimePoint' = now
  /\ sessionStart' = now
  /\ sessions' = sessions + 1
  /\ reads' = 0
  /\ sends' = 0
  /\ sendResult' = "none"
  /\ lastSendAt' = 0
  /\ UNCHANGED <<now, readSize, request, response, hero, canvas, served, rect, calls, closes>>

\* accept returns -1: perror, runConnectionLoop returns, main returns 0.
AcceptFail ==
  /\ pc = "accept"
  /\ pc' = "exited"
  /\ UNCHANGED <<now, conn, nextSendTimePoint, readSize, request, response, hero,
                 canvas, sendResult, lastSendAt, sessionStart, reads, sends, served,
                 sessions, rect, calls, closes>>

\* recv returns N > 0 bytes: one of reqs.
RecvData(reqs) ==
  /\ pc = "recv"
  /\ served < MaxReads
  /\ \E req \in reqs :
       /\ Len(req) <= RECV_BUF_SIZE
       /\ readSize' = Len(req)
       /\ request' = req
       /\ pc' = AfterRecv(Len(req))
  /\ reads' = reads + 1
  /\ served' = served + 1
  /\ UNCHANGED <<now, conn, nextSendTimePoint, response, hero, canvas, sendResult,
                 lastSendAt, sessionStart, sends, sessions, rect, calls, closes>>

\* A variant in which runConnectionLoop does not call close.
RecvEnd_NoClose ==
  /\ pc = "recv"
  /\ \E rs \in {0, 0 - 1} :
       /\ readSize' = rs
       /\ pc' = AfterRecv(rs)
  /\ UNCHANGED <<now, conn, nextSendTimePoint, request, response, hero, canvas, sendResult,
                 lastSendAt, sessionStart, reads, sends, served, sessions, rect, calls,
                 closes>>

\* recv returns 0 or -1.  When the loop is left, runConnectionLoop calls close.
RecvEnd ==
  /\ pc = "recv"
  /\ \E rs \in {0, 0 - 1} :
       /\ readSize' = rs
       /\ pc' = AfterRecv(rs)
       /\ conn' = IF AfterRecv(rs) = "accept" THEN "closed" ELSE conn
       /\ closes' = IF AfterRecv(rs) = "accept" THEN closes + 1 ELSE closes
  /\ UNCHANGED <<now, nextSendTimePoint, request, response, hero, canvas, sendResult,
                 lastSendAt, sessionStart, reads, sends, served, sessions, rect, calls>>

\* createResponse(request)
DispatchStep ==
  /\ pc = "dispatch"
  /\ \E mem \in Memory(request) : \E ov \in DrawOutcomes(request, hero, mem) :
       \E r \in {createResponseBody(request, hero, canvas, mem, ov)} :
           /\ response' = createResponse(r.body)
           /\ hero' = r.hero
           /\ canvas' = r.canvas
  /\ pc' = "send"
  /\ UNCHANGED <<now, conn, nextSendTimePoint, readSize, request, sendResult,
                 lastSendAt, sessionStart, reads, sends, served, sessions, rect, calls,
                 closes>>

\* sleep_until(nextSendTimePoint); send(...); nextSendTimePoint += 100ms
Send(results) ==
  /\ pc = "send"
  /\ SleepUntilReturns(nextSendTimePoint)
  /\ \E result \in results :
       /\ sendResult' = result
       /\ pc' = AfterSend(result)
  /\ lastSendAt' = now
  /\ sends' = sends + 1
  /\ nextSendTimePoint' = AdvanceDeadline(nextSendTimePoint)
  /\ request' = <<>>
  /\ response' = <<>>
  /\ UNCHANGED <<now, conn, readSize, hero, canvas, sessionStart, reads, served,
                 sessions, rect, calls, closes>>

\* The steady clock advances while the thread is blocked or computing (free),
\* or only while it sleeps: a client that is always ready, and a thread that
\* takes no time.
Elapse(free) ==
  /\ pc \in {"accept", "recv", "dispatch", "send"}
  /\ free \/ (pc = "send" /\ ~SleepUntilReturns(nextSendTimePoint))
  /\ now + TimeStep <= MaxClock
  /\ now' = now + TimeStep
  /\ UNCHANGED <<pc, conn, nextSendTimePoint, readSize, request, response, hero,
                 canvas, sendResult, lastSendAt, sessionStart, reads, sends, served,
                 sessions, rect, calls, closes>>

\* Every request of Requests, with sends that succeed and a clock in step.
Next ==
  \/ Accept
  \/ AcceptFail
  \/ RecvData(Requests)
  \/ RecvEnd
  \/ DispatchStep
  \/ Send({"all"})
  \/ Elapse(FALSE)

Spec == Init /\ [][Next]_vars

\* Every timing and every result of send, with one request of each kind.
NextPacing ==
  \/ Accept
  \/ AcceptFail
  \/ RecvData(PacingRequests)
  \/ RecvEnd
  \/ DispatchStep
  \/ Send(SendResults)
  \/ Elapse(TRUE)

SpecPacing == Init /\ [][NextPacing]_vars

-----------------------------------------------------------------------------
(* createResponse for a key-state body, wherever the entity is: the thread  *)
(* has read a POST / of 256 digits, and the entity is where earlier         *)
(* requests have taken it. Adding 8.0f is exact on the multiples of 8 up to *)
(* 2^27, and the roundings before (when the centre is not a multiple of 8)  *)
(* end on multiples of 8: some 2^24 requests in one direction take the      *)
(* entity from the centre to Far - 8 and to Far.                            *)

Far == 2^27

Ticks == 0..1

HeroPositions ==
  {[x_ |-> HalfWidth + 8 * i, y_ |-> HalfHeight + 8 * j] : i, j \in Ticks}
    \cup {[x_ |-> s * (Far - 8 * i), y_ |-> HalfHeight] : s \in {0 - 1, 1}, i \in Ticks}
    \cup {[x_ |-> HalfWidth, y_ |-> s * (Far - 8 * i)] : s \in {0 - 1, 1}, i \in Ticks}

KeyBodies == {KeyBody(down) : down \in SUBSET {ArrowLeft, ArrowUp, ArrowRight, ArrowDown}}

InitHero ==
  /\ pc = "dispatch"
  /\ now = 0
  /\ conn = "open"
  /\ nextSendTimePoint = 0
  /\ \E body \in KeyBodies :
       /\ request = ReqPost(body)
       /\ readSize = Len(ReqPost(body))
  /\ response = <<>>
  /\ hero \in HeroPositions
  /\ canvas = Hero_draw(Canvas_clear(CanvasInit, "none"), hero, "none")
  /\ sendResult = "none"
  /\ lastSendAt = 0
  /\ sessionStart = 0
  /\ reads = 1
  /\ sends = 0
  /\ served = 1
  /\ sessions = 1
  /\ rect = <<0, 0, 0, 0>>
  /\ calls = {}
  /\ closes = 0

NextHero == DispatchStep

SpecHero == InitHero /\ [][NextHero]_vars

-----------------------------------------------------------------------------
(* createResponse and the send that follows, for bytes of many shapes: the  *)
(* thread has read them in a session, in a fresh process or after a frame.  *)

OTHER_PATH_LINE ==
  <<
     "G", "E", "T", " ", "/", "x", " ", "H", "T", "T", "P", "/", "1", ".", "1", "\r",
     "\n"
  >>

LOWER_CASE_LINE ==
  <<
     "g", "e", "t", " ", "/", " ", "H", "T", "T", "P", "/", "1", ".", "1", "\r", "\n"
  >>

\* Not recognised: another method, another path, another case, an empty first
\* line, a space before the method, the body alone (the rest of a request cut
\* by the read before), one byte, a line cut after "POST /".
ReqOtherPath == OTHER_PATH_LINE \o HOST \o CRLF
ReqLowerCase == LOWER_CASE_LINE \o HOST \o CRLF
ReqEmptyLine == CRLF \o ReqGet
ReqLeadingSpace == <<" ">> \o ReqGet
ReqBodyOnly == KeyBody({ArrowRight})
ReqOneByte == <<"x">>
ReqPostCutLine == SubSeq(POST_PREFIX, 1, Len(POST_PREFIX) - 1)

UnrecognisedRequests ==
  { ReqPut, ReqOtherPath, ReqLowerCase, ReqEmptyLine, ReqLeadingSpace, ReqBodyOnly,
    ReqOneByte, ReqPostCutLine }

\* GET / with and without the rest of the request.
GetRequests == { ReqGet, GET_PREFIX, ReqGet \o KeyBody({ArrowDown}) }

\* POST / with a blank line: no header, one, two; a body that holds a blank
\* line itself; two requests in one read; a body of 41 bytes that are not all
\* digits.
ReqPostNoHeader == POST_LINE \o CRLF \o KeyBody({ArrowRight})
ReqPostTwoHeaders == POST_LINE \o HOST_PORT \o HOST \o CRLF \o KeyBody({ArrowUp})
ReqPostBlankInBody ==
  ReqPost(SubSeq(KeyBody({ArrowLeft}), 1, ArrowDown + 1) \o CRLFCRLF \o KeyBody({ArrowUp}))
ReqPostLetters ==
  ReqPost([i \in 1..(ArrowDown + 1) |-> IF i = ArrowDown + 1 THEN "1" ELSE "x"])

SeparatedPosts ==
  { ReqPost(KeyBody({ArrowDown})), ReqPost(KeyBody({})), ReqPostNoHeader, ReqPostTwoHeaders,
    ReqPostBlankInBody, ReqCoalesced, ReqPostLetters }

\* POST / without a blank line: the headers only, the request line only, the
\* first seven bytes only.
UnseparatedPosts == { ReqPostNoBlankLine, POST_LINE \o HOST, POST_LINE, POST_PREFIX }

CodecRequests == UnrecognisedRequests \cup GetRequests \cup SeparatedPosts \cup UnseparatedPosts

\* The globals of a fresh process, and after a frame with the entity moved.
Worlds ==
  { [hero |-> HeroInit, canvas |-> CanvasInit] }
    \cup { [hero |-> h, canvas |-> Hero_draw(Canvas_clear(CanvasInit, "none"), h, "none")] :
             h \in { HeroInit, [x_ |-> HalfWidth + 8, y_ |-> HalfHeight] } }

InitCodec ==
  /\ pc = "dispatch"
  /\ now = 0
  /\ conn = "open"
  /\ nextSendTimePoint = 0
  /\ request \in CodecRequests
  /\ readSize = Len(request)
  /\ response = <<>>
  /\ \E w \in Worlds : hero = w.hero /\ canvas = w.canvas
  /\ sendResult = "none"
  /\ lastSendAt = 0
  /\ sessionStart = 0
  /\ reads = 1
  /\ sends = 0
  /\ served = 1
  /\ sessions = 1
  /\ rect = <<0, 0, 0, 0>>
  /\ calls = {}
  /\ closes = 0

NextCodec ==
  \/ DispatchStep
  \/ Send({"all"})

SpecCodec == InitCodec /\ [][NextCodec]_vars

-----------------------------------------------------------------------------
(* Canvas::drawRect on its own: one call, on a buffer of zero bytes, with a *)
(* rectangle drawn from origins and sizes on both sides of every edge of    *)
(* the buffer, and from the largest and the smallest int.                   *)

RectXs == {0 - WIDTH - 3, 0 - 3, 0, 2, WIDTH - 1, WIDTH, WIDTH + 4}
RectYs == {0 - HEIGHT - 3, 0 - 3, 0, 2, HEIGHT - 1, HEIGHT, HEIGHT + 4}
RectWs == {INT_MIN, 0 - 2, 0, 1, 5, WIDTH, 2 * WIDTH + 7, INT_MAX}
RectHs == {INT_MIN, 0 - 2, 0, 1, 5, HEIGHT, 2 * HEIGHT + 7, INT_MAX}

InitDraw ==
  /\ pc = "draw"
  /\ now = 0
  /\ conn = "none"
  /\ nextSendTimePoint = 0
  /\ readSize = 0
  /\ request = <<>>
  /\ response = <<>>
  /\ hero = HeroInit
  /\ canvas = CanvasInit
  /\ sendResult = "none"
  /\ lastSendAt = 0
  /\ sessionStart = 0
  /\ reads = 0
  /\ sends = 0
  /\ served = 0
  /\ sessions = 0
  /\ rect = <<0, 0, 0, 0>>
  /\ calls = {}
  /\ closes = 0

\* canvas.drawRect(x, y, w, h, Color{255, 0, 0})
DrawStep ==
  /\ pc = "draw"
  /\ \E x \in RectXs, y \in RectYs, w \in RectWs, h \in RectHs :
       \E ov \in IF SumOverflows(x, w) \/ SumOverflows(y, h) THEN OverflowOutcomes ELSE {"none"} :
         /\ rect' = <<x, y, w, h>>
         /\ calls' = SetPixelCalls(x, y, w, h, ov)
         /\ canvas' = Canvas_drawRect(canvas, x, y, w, h, Color(255, 0, 0), ov)
  /\ pc' = "drawn"
  /\ UNCHANGED <<now, conn, nextSendTimePoint, readSize, request, response, hero,
                 sendResult, lastSendAt, sessionStart, reads, sends, served, sessions,
                 closes>>

NextDraw == DrawStep

SpecDraw == InitDraw /\ [][NextDraw]_vars

-----------------------------------------------------------------------------
(* The claims. *)

\* The thread is inside the loop of runReceiveSendLoop.
InLoop == pc \in {"recv", "dispatch", "send"}

\* The step is the call of createResponse for a request dispatched as POST /.
PostStep == pc = "dispatch" /\ pc' = "send" /\ Dispatch(request) = "POST"

\* The pixels of the 8x8 square around (x, y) that lie in the buffer.
Square(x, y) ==
  {p \in (0..(WIDTH - 1)) \X (0..(HEIGHT - 1)) :
     /\ x - 4 <= p[1] /\ p[1] < x + 4
     /\ y - 4 <= p[2] /\ p[2] < y + 4}

\* data is the frame of an entity at (x, y): its square in (255,0,0,255), every
\* other pixel (0,0,0,255).
FrameShows(data, x, y) ==
  /\ DOMAIN data = 0..(WIDTH * HEIGHT * DEPTH - 1)
  /\ \A xi \in 0..(WIDTH - 1), yi \in 0..(HEIGHT - 1) :
       LET o == (xi + yi * WIDTH) * DEPTH
           px == <<data[o], data[o + 1], data[o + 2], data[o + 3]>>
       IN  px = IF <<xi, yi>> \in Square(x, y) THEN <<255, 0, 0, 255>> ELSE <<0, 0, 0, 255>>

\* A key-state body as the page sends it: 256 digits, each '0' or '1'.
WellFormed(body) == Len(body) = KEYS /\ \A i \in 1..KEYS : body[i] \in {"0", "1"}

\* 1 if the digit of keyCode is '1', else 0.
Pressed(body, keyCode) == IF body[keyCode + 1] = "1" THEN 1 ELSE 0

\* C1 (as claimed): when recv returns -1 the session alone ends: nothing is
\* sent, the connection is closed and the thread is back in accept.
C1_RecvErrorEndsSessionOnly ==
  [][(pc = "recv" /\ readSize' = 0 - 1)
       => (pc' = "accept" /\ conn' = "closed" /\ sends' = sends)]_vars

\* C2 (as claimed): the loop of a session is left only by a recv that returned
\* 0 or -1, never by a request, a result of send or the passing of time; and
\* when recv returns 0 nothing is sent, the connection is closed and the
\* thread is back in accept.
C2_LoopLeftOnlyByRead ==
  [][/\ (InLoop /\ ~InLoop') => (pc = "recv" /\ readSize' \in {0, 0 - 1})
     /\ (pc = "recv" /\ pc' # "recv" /\ readSize' = 0)
          => (pc' = "accept" /\ conn' = "closed" /\ sends' = sends)]_vars

\* C3 (as claimed): when a recv is issued, every read of the session that
\* returned N > 0 has had one response, sent in full; while a response is
\* being made, all reads before have.
C3_ReadThenOneFullResponse ==
  /\ pc = "recv" => (sends = reads /\ (reads > 0 => sendResult = "all"))
  /\ pc \in {"dispatch", "send"} => sends = reads - 1

\* C4 (as claimed): two consecutive sends of a session are at least 100 ms
\* apart.
C4_ConsecutiveSendsApart ==
  [][(sends' = sends + 1 /\ sends >= 1) => now - lastSendAt >= INTERVAL]_vars

\* C4 (amended): response k of a session (k >= 0) is not sent before session
\* start + k * 100 ms, and a send is at least 100 ms after the one before it
\* when that one was made at its deadline.
C4_SendsApartWhenOnTime ==
  [][(sends' = sends + 1)
       => /\ now >= sessionStart + sends * INTERVAL
          /\ (sends >= 1 /\ lastSendAt = sessionStart + (sends - 1) * INTERVAL)
               => now - lastSendAt >= INTERVAL]_vars

\* C4 witness: the second response of a session went out at start + 100 ms.
C4_Witness ==
  pc = "recv" /\ sends = 2 /\ lastSendAt = sessionStart + INTERVAL

\* C5: at every send the clock has reached the deadline in force.
C5_NoSendBeforeDeadline ==
  [][(sends' = sends + 1) => now >= nextSendTimePoint]_vars

\* C5 witness: a response that was ready before its deadline and went out at it.
C5_Witness ==
  /\ pc = "recv" /\ sends >= 2 /\ sendResult = "all"
  /\ lastSendAt = nextSendTimePoint - INTERVAL

\* C6: in a session the deadline is session start + 100 ms for each send made
\* so far, whatever the time of the sends; a response whose deadline has
\* passed can be sent at once; every read that returned N > 0 gets its send.
C6_DeadlineIsStartPlusSends ==
  /\ InLoop => nextSendTimePoint = sessionStart + sends * INTERVAL
  /\ (pc = "send" /\ now >= nextSendTimePoint) => ENABLED Send(SendResults)
  /\ pc = "recv" => sends = reads
  /\ pc \in {"dispatch", "send"} => sends = reads - 1

\* C6 witness: the last send was made after the deadline that follows it.
C6_Witness ==
  pc = "recv" /\ sends = 2 /\ lastSendAt > nextSendTimePoint

\* C7 (as claimed): for a POST / whose body is shorter than 41 bytes, the keys
\* whose index is outside the body count as not pressed.
C7_KeysOutsideBodyNotPressed ==
  [][(PostStep /\ Len(getRequestBody(request)) < ArrowDown + 1)
       => hero' = Hero_update(hero, getRequestBody(request),
                              [k \in OutOfBody(getRequestBody(request)) |-> FALSE])]_vars

\* C8 (as claimed): after a frame, the body with '1' at index 39 alone gives
\* the frame with the square 8 pixels up.
C8_Index39MovesUp ==
  [][(PostStep /\ request = ReqPost(KeyBody({39})) /\ FrameShows(canvas, hero.x_, hero.y_))
       => /\ FrameShows(canvas', hero.x_, hero.y_ - 8)
          /\ response' = createResponse(Canvas_toString(canvas'))]_vars

\* C8 (amended): after a frame, the body with '1' at index 38 alone (ArrowUp)
\* gives the frame with the square 8 pixels up and every other pixel cleared.
C8_Index38MovesUp ==
  [][(PostStep /\ request = ReqPost(KeyBody({38})) /\ FrameShows(canvas, hero.x_, hero.y_))
       => /\ FrameShows(canvas', hero.x_, hero.y_ - 8)
          /\ response' = createResponse(Canvas_toString(canvas'))]_vars

\* C8 witness: a frame with the whole square, made for index 38 after the
\* frame with the square 8 pixels below.
C8_Witness ==
  /\ pc = "send" /\ request = ReqPost(KeyBody({38})) /\ served = 2
  /\ hero = HeroInit
  /\ FrameShows(canvas, HalfWidth, HalfHeight)
  /\ Cardinality(Square(HalfWidth, HalfHeight)) = 64

\* C9 (as claimed): one tick with a well-formed body moves the entity by
\* (8 * (right - left), 8 * (down - up)), wherever it is.
C9_TickDisplacement ==
  [][(PostStep /\ WellFormed(getRequestBody(request)))
       => LET b == getRequestBody(request)
          IN  /\ hero'.x_ = hero.x_ + 8 * (Pressed(b, ArrowRight) - Pressed(b, ArrowLeft))
              /\ hero'.y_ = hero.y_ + 8 * (Pressed(b, ArrowDown) - Pressed(b, ArrowUp))]_vars

\* C10 (as claimed): every setPixel call of drawRect is inside the buffer, so
\* is every byte it writes; the calls are exactly the pixels of the rectangle
\* that lie in the buffer, they alone change, and a rectangle disjoint from
\* the buffer changes nothing.
C10_DrawRectFillsIntersection ==
  pc = "drawn" =>
    LET inside == {p \in (0..(WIDTH - 1)) \X (0..(HEIGHT - 1)) :
                     /\ rect[1] <= p[1] /\ p[1] - rect[1] < rect[3]
                     /\ rect[2] <= p[2] /\ p[2] - rect[2] < rect[4]}
    IN  /\ \A c \in calls : 0 <= c[1] /\ c[1] < WIDTH /\ 0 <= c[2] /\ c[2] < HEIGHT
        /\ \A c \in calls : \A k \in 0..(DEPTH - 1) :
             PixelOffset(c[1], c[2]) + k \in 0..(WIDTH * HEIGHT * DEPTH - 1)
        /\ calls = inside
        /\ \A xi \in 0..(WIDTH - 1), yi \in 0..(HEIGHT - 1) : \A k \in 0..(DEPTH - 1) :
             canvas[PixelOffset(xi, yi) + k] =
               IF <<xi, yi>> \in inside THEN Color(255, 0, 0)[k + 1] ELSE 0
        /\ inside = {} => canvas = CanvasInit

\* The value of a decimal digit, and of a string of them (std::stoul, as a
\* client reads Content-Length).
DigitValue(c) == CHOOSE d \in 0..9 : Digit(d) = c

RECURSIVE ParseNat(_)
ParseNat(digits) ==
  IF digits = <<>> THEN 0
  ELSE 10 * ParseNat(SubSeq(digits, 1, Len(digits) - 1)) + DigitValue(digits[Len(digits)])

IsNumber(digits) ==
  digits # <<>> /\ \A i \in 1..Len(digits) : \E d \in 0..9 : Digit(d) = digits[i]

\* The bytes of r after its first empty line.
BodyOf(r) == Substr(r, Find(r, CRLFCRLF) + 4, NPOS)

\* The value of the Content-Length line in the header block of r.
LengthFieldOf(r) ==
  LET head == Substr(r, 0, Find(r, CRLFCRLF)) \o CRLF
      from == Find(head, CONTENT_LENGTH) + Len(CONTENT_LENGTH)
      rest == Substr(head, from, NPOS)
  IN  Substr(rest, 0, Find(rest, CRLF))

\* C11: the response made for a request starts with the status line 200 OK,
\* has an empty line, the bytes after the first empty line are the body made
\* for the request, and the Content-Length line holds their number.
C11_ResponseWellFormed ==
  pc = "send" =>
    /\ Substr(response, 0, Len(STATUS_LINE)) = STATUS_LINE
    /\ Find(response, CRLFCRLF) # NPOS
    /\ Find(Substr(response, 0, Find(response, CRLFCRLF)), CONTENT_LENGTH) # NPOS
    /\ IsNumber(LengthFieldOf(response))
    /\ ParseNat(LengthFieldOf(response)) = Len(BodyOf(response))
    /\ BodyOf(response) = CASE Dispatch(request) = "GET" -> baseHTML
                            [] Dispatch(request) = "POST" -> Canvas_toString(canvas)
                            [] OTHER -> <<>>

\* C11 witness: a response with a frame as body.
C11_Witness ==
  /\ pc = "send" /\ Dispatch(request) = "POST"
  /\ Len(BodyOf(response)) >= 2 * WIDTH * HEIGHT * DEPTH
  /\ ParseNat(LengthFieldOf(response)) = Len(BodyOf(response))

\* s begins with the bytes p.
StartsWith(s, p) == Len(s) >= Len(p) /\ SubSeq(s, 1, Len(p)) = p

\* The request line of the bytes of a read begins with neither "GET / " nor
\* "POST / ".
Unrecognised(req) ==
  /\ ~StartsWith(getRequestLine(req), GET_PREFIX)
  /\ ~StartsWith(getRequestLine(req), POST_PREFIX)

\* The response 200 OK with Content-Length 0 and no body.
EMPTY_200 == STATUS_LINE \o CONTENT_TYPE \o CONTENT_LENGTH \o <<"0">> \o CRLF \o CRLF

HasSeparator(req) == \E i \in 1..(Len(req) - 3) : SubSeq(req, i, i + 3) = CRLFCRLF

\* The bytes after the first CR LF CR LF of bytes that hold one.
RECURSIVE AfterSeparator(_)
AfterSeparator(req) ==
  IF SubSeq(req, 1, 4) = CRLFCRLF THEN SubSeq(req, 5, Len(req))
  ELSE AfterSeparator(Tail(req))

\* C13: bytes whose request line begins with "GET / " get the static page as
\* body, byte for byte, and change nothing; bytes whose request line begins
\* with "POST / " and that hold a blank line advance the entity with the bytes
\* after the first CR LF CR LF as key state, and get the frame of it as body.
C13_GetPageAndPostBody ==
  [][/\ (pc = "dispatch" /\ pc' = "send" /\ StartsWith(getRequestLine(request), GET_PREFIX))
          => (BodyOf(response') = baseHTML /\ hero' = hero /\ canvas' = canvas)
     /\ (pc = "dispatch" /\ pc' = "send" /\ StartsWith(getRequestLine(request), POST_PREFIX)
           /\ HasSeparator(request))
          => /\ \E mem \in [OutOfBody(AfterSeparator(request)) -> BOOLEAN] :
                  hero' = Hero_update(hero, AfterSeparator(request), mem)
             /\ FrameShows(canvas', hero'.x_, hero'.y_)
             /\ BodyOf(response') = Canvas_toString(canvas')]_vars

\* C13 witness: a frame made for a body that holds a blank line itself, with
\* ArrowLeft before it and ArrowUp after it: the entity went left.
C13_Witness ==
  /\ pc = "send" /\ request = ReqPostBlankInBody
  /\ Len(AfterSeparator(request)) = ArrowDown + 1 + 4 + KEYS
  /\ hero = [x_ |-> HalfWidth - 8, y_ |-> HalfHeight]
  /\ BodyOf(response) = Canvas_toString(canvas)

\* C14: no step of the thread in accept or in recv (a connection accepted, no
\* connection accepted, bytes read, the peer's shutdown, a read error, the
\* close that follows) changes the entity or the buffer, so a session starts
\* with what the session before left; the first starts with the entity at
\* the centre.
C14_WorldOutlivesSessions ==
  [][/\ pc \in {"accept", "recv"} => (hero' = hero /\ canvas' = canvas)
     /\ (pc = "accept" /\ pc' = "recv" /\ sessions' = 1)
          => (hero' = HeroInit /\ canvas' = CanvasInit)]_vars

\* C14 witness: the second session has started, after the peer's shutdown
\* ended the first, with the entity where two frames of the first took it.
C14_Witness ==
  /\ pc = "recv" /\ sessions = 2 /\ reads = 0 /\ readSize = 0 /\ served = 2
  /\ hero = [x_ |-> HalfWidth + 8, y_ |-> HalfHeight + 8]
  /\ FrameShows(canvas, hero.x_, hero.y_)

\* C15: a connection is accepted only when none is open; while the thread is
\* in accept every connection accepted so far has been closed, once; while it
\* is in a session all but the session's have, and the session's is open.
C15_OneConnectionAtATime ==
  /\ pc = "accept" => (conn # "open" /\ closes = sessions)
  /\ InLoop => (conn = "open" /\ closes = sessions - 1)
  /\ ENABLED Accept => conn # "open"

\* C15 witness: the second connection is open and the first was closed once.
C15_Witness ==
  pc = "dispatch" /\ conn = "open" /\ sessions = 2 /\ closes = 1

\* The text of pixels lo..hi of the frame of an entity at (x, y), pixel by
\* pixel in row order, each channel value followed by a comma.
RECURSIVE PixelText(_, _, _, _)
PixelText(x, y, lo, hi) ==
  IF lo > hi THEN <<>>
  ELSE IF lo = hi
       THEN IF <<lo % WIDTH, lo \div WIDTH>> \in Square(x, y)
            THEN <<"2", "5", "5", ",", "0", ",", "0", ",", "2", "5", "5", ",">>
            ELSE <<"0", ",", "0", ",", "0", ",", "2", "5", "5", ",">>
       ELSE LET mid == (lo + hi) \div 2
            IN  PixelText(x, y, lo, mid) \o PixelText(x, y, mid + 1, hi)

\* The frame of an entity at (x, y) as the page receives it: "[", the
\* W*H*4 channel values separated by commas, "]".
FrameText(x, y) ==
  LET t == PixelText(x, y, 0, WIDTH * HEIGHT - 1)
  IN  <<"[">> \o SubSeq(t, 1, Len(t) - 1) \o <<"]">>

\* C16: after every processed POST / the pixel buffer, and the frame in the
\* response, is the 8x8 square with top-left (x - 4, y - 4) clipped to the
\* buffer in (255,0,0,255) and (0,0,0,255) everywhere else, W*H*4 values.
C16_FrameIsSquareOnClear ==
  [][PostStep =>
       /\ FrameShows(canvas', hero'.x_, hero'.y_)
       /\ BodyOf(response') = FrameText(hero'.x_, hero'.y_)]_vars

\* C16 witness: a POST was processed and the square, moved since the frame
\* before, lies partly outside the buffer.
C16_Witness ==
  /\ pc = "send" /\ Dispatch(request) = "POST"
  /\ hero = [x_ |-> HalfWidth + 8, y_ |-> HalfHeight + 8]
  /\ Square(hero.x_, hero.y_) # {}
  /\ Cardinality(Square(hero.x_, hero.y_)) < 64
  /\ FrameShows(canvas, hero.x_, hero.y_)

\* C16 witness: a POST was processed with the square wholly outside the
\* buffer, and the frame is clear.
C16_WitnessOutside ==
  /\ pc = "send" /\ Dispatch(request) = "POST"
  /\ hero.x_ >= Far - 8
  /\ Square(hero.x_, hero.y_) = {}
  /\ FrameShows(canvas, hero.x_, hero.y_)

\* Where one tick with the key state of req may take the entity h.
OneTick(req, h) == {Hero_update(h, getRequestBody(req), mem) : mem \in Memory(req)}

\* C17: only a request dispatched as POST / advances the simulation: that step
\* applies exactly one tick; every other step, the dispatch of a GET / or of an
\* unrecognised request included, applies none and leaves the entity position
\* and every byte of the pixel buffer as they were.
C17_OnlyPostTicks ==
  [][IF PostStep
     THEN hero' \in OneTick(request, hero) /\ FrameShows(canvas', hero'.x_, hero'.y_)
     ELSE hero' = hero /\ canvas' = canvas]_vars

\* C17 witness: a tick has moved the entity; then a GET / or an unrecognised
\* request was dispatched, and the position and the frame are those of the tick.
C17_Witness ==
  /\ pc = "send" /\ Dispatch(request) # "POST" /\ reads = 2
  /\ hero # HeroInit
  /\ FrameShows(canvas, hero.x_, hero.y_)

\* C18 (as claimed): when the bytes of a POST / request contain no CRLF CRLF,
\* the request body is empty and the tick leaves the entity position unchanged:
\* no byte of the request line or of a header is read as key state.
C18_NoSeparatorNoKeys ==
  [][(PostStep /\ ~HasSeparator(request))
       => (getRequestBody(request) = <<>> /\ hero' = hero)]_vars

\* C19: the deadline belongs to the session: when a session starts it is the
\* time of the start, whatever deadline the session before left behind, and
\* the first response of a session never waits for it.
C19_DeadlinePerSession ==
  [][/\ (pc = "accept" /\ pc' = "recv") => nextSendTimePoint' = now'
     /\ (pc = "send" /\ sends = 0)
          => (nextSendTimePoint = sessionStart /\ SleepUntilReturns(nextSendTimePoint))
     /\ (pc = "send" /\ sends = 0 /\ pc' # "send") => lastSendAt' = now]_vars

\* C19 witness: the session before made a send, so it left a deadline of at
\* least 100 ms; the second session started before that time, and its first
\* response is ready with the deadline at the start of the session.
C19_Witness ==
  /\ pc = "send" /\ sessions = 2 /\ sends = 0 /\ served = 2
  /\ sessionStart < INTERVAL
  /\ nextSendTimePoint = sessionStart

====
